---- MODULE Spec2Model ----
(***************************************************************************)
(* Model of the parser-combinator package: the lazily extended chain of    *)
(* data nodes behind State, the Byte/Rune advances with the decode across  *)
(* a node boundary, and the combinators that run on a State.               *)
(***************************************************************************)
EXTENDS Integers, Sequences, FiniteSets, TLC

\* ------------------------------------------------------------------ bounds
\* Longest input, in units of Units (a unit is one to three bytes).
MaxUnits == 2
\* Most places at which the pull source ends a read early.
MaxCuts == 2
\* Most reads of the pull source that return no byte and no end-of-input.
MaxZeros == 1
\* Longest token handed to ExactString / ExactBytes, in units.
MaxTokUnits == 1
\* Most reads of the pull source that fail with an error other than io.EOF.
MaxFails == 1

\* --------------------------------------------------------- program constants
minDataSize == 8
RuneErrorValue == 65533
nextDataPLimit == 6

\* ------------------------------------------------------------------ helpers
Min(a, b) == IF a < b THEN a ELSE b
Max(a, b) == IF a > b THEN a ELSE b

RECURSIVE Flatten(_)
Flatten(ss) == IF ss = <<>> THEN <<>> ELSE Head(ss) \o Flatten(Tail(ss))

\* The pieces inputs are built from: 'a', line feed, the 3-byte U+221E, the
\* 3-byte encoding of U+FFFD, the first two bytes of U+221E (a truncated
\* encoding) and a lone continuation byte 0x88.
Units ==
    { <<97>>, <<10>>, <<226, 136, 158>>, <<239, 191, 189>>, <<226, 136>>, <<136>> }

SeqsUpTo(S, n) == UNION { [1..k -> S] : k \in 0..n }

Inputs == { Flatten(us) : us \in SeqsUpTo(Units, MaxUnits) }

\* Inputs of the repository's tests, read through a source that fills the
\* whole buffer: "1234567" followed by U+221E; the same cut after the second
\* byte of U+221E and followed by "acbd"; and "1234567", U+221E, "abcde", the
\* lead byte 0xE2 and "a", where two encodings meet a boundary of 8-byte
\* chunks.
TestInputs ==
    { <<49, 50, 51, 52, 53, 54, 55, 226, 136, 158>>,
      <<49, 50, 51, 52, 53, 54, 55, 226, 136, 97, 99, 98, 100>>,
      <<49, 50, 51, 52, 53, 54, 55, 226, 136, 158, 97, 98, 99, 100, 101, 226, 97>> }

\* Chunk sizes handed to NewStateReaderSize.
Sizes == {1, 9}

\* ------------------------------------------------------------------- errors
NoPos == [Offset |-> -1, Line |-> 0, Column |-> 0]
ErrNil == [kind |-> "nil", pos |-> NoPos]
ErrEOF == [kind |-> "EOF", pos |-> NoPos]
ErrNoMatch == [kind |-> "ErrNoMatch", pos |-> NoPos]
ErrPanic == [kind |-> "panic", pos |-> NoPos]
\* The error a failing Read of the source returns.
ErrRead == [kind |-> "read", pos |-> NoPos]
RuneError(p) == [kind |-> "RuneError", pos |-> p]

\* --------------------------------------------------------- utf8.DecodeRune
\* Width the lead byte announces; 1 for ASCII, 0 for a byte that cannot lead.
LeadSize(b) ==
    IF b < 128 THEN 1
    ELSE IF b < 194 THEN 0
    ELSE IF b < 224 THEN 2
    ELSE IF b < 240 THEN 3
    ELSE IF b < 245 THEN 4
    ELSE 0

\* Range the second byte must lie in.
AcceptLo(b) == IF b = 224 THEN 160 ELSE IF b = 240 THEN 144 ELSE 128
AcceptHi(b) == IF b = 237 THEN 159 ELSE IF b = 244 THEN 143 ELSE 191

IsCont(b) == 128 <= b /\ b <= 191

\* utf8.DecodeRune(p): the scalar value and its width, or (RuneError, 1) for
\* a malformed or truncated encoding and (RuneError, 0) for no bytes.
DecodeRune(p) ==
    IF Len(p) < 1 THEN [r |-> RuneErrorValue, rs |-> 0]
    ELSE LET p0 == p[1]
             sz == LeadSize(p0)
             bad == [r |-> RuneErrorValue, rs |-> 1]
         IN IF sz = 1 THEN [r |-> p0, rs |-> 1]
            ELSE IF sz = 0 THEN bad
            ELSE IF Len(p) < sz THEN bad
            ELSE IF p[2] < AcceptLo(p0) \/ AcceptHi(p0) < p[2] THEN bad
            ELSE IF sz = 2 THEN [r |-> (p0 % 32) * 64 + (p[2] % 64), rs |-> 2]
            ELSE IF ~IsCont(p[3]) THEN bad
            ELSE IF sz = 3
                 THEN [r |-> (p0 % 16) * 4096 + (p[2] % 64) * 64 + (p[3] % 64),
                       rs |-> 3]
            ELSE IF ~IsCont(p[4]) THEN bad
            ELSE [r |-> (p0 % 8) * 262144 + (p[2] % 64) * 4096
                        + (p[3] % 64) * 64 + (p[4] % 64),
                  rs |-> 4]

\* -------------------------------------------------------------------- state
VARIABLES
    input,   \* the bytes the State was built over (never changes)
    kind,    \* "mem": NewStateString / NewStateBytes; "reader": NewStateReaderSize
    nodes,   \* the data nodes, in chain order: [r, buf, cap, next, err]
    src,     \* the pull source: [pos, cuts, zeros, fails, eofWithData]
    pulls,   \* number of Read calls made on the source
    cur,     \* the State the caller holds
    trav,    \* the traversal the caller is in: [mode, out, err]
    last,    \* the most recent call and what it returned
    thr      \* the calls two threads are in the middle of: where each one is

vars == <<input, kind, nodes, src, pulls, cur, trav, last, thr>>

\* The shared part that a read may change.
World == [nodes |-> nodes, src |-> src, pulls |-> pulls]

\* ------------------------------------------------------------ the pull source
\* r.Read(buf) with len(buf) = size: the bytes delivered, whether io.EOF is
\* returned with them, the other error returned if any, and the source
\* afterwards.  The source delivers the input in order; it stops a read early
\* at each position of cuts, returns (0, err) with an error other than io.EOF
\* once at each position of fails, returns (0, nil) once at each position of
\* zeros, and reports io.EOF either with the last bytes (eofWithData) or on
\* the read after them.
Read(s, size) ==
    IF s.pos \in s.fails
    THEN [data |-> <<>>, eof |-> FALSE, err |-> ErrRead,
          src |-> [s EXCEPT !.fails = s.fails \ {s.pos}]]
    ELSE IF s.pos \in s.zeros
    THEN [data |-> <<>>, eof |-> FALSE, err |-> ErrNil,
          src |-> [s EXCEPT !.zeros = s.zeros \ {s.pos}]]
    ELSE IF s.pos = Len(input)
    THEN [data |-> <<>>, eof |-> TRUE, err |-> ErrNil, src |-> s]
    ELSE LET stops == {c \in s.cuts : c > s.pos} \cup {Len(input), s.pos + size}
             to == CHOOSE c \in stops : \A d \in stops : c <= d
         IN [data |-> SubSeq(input, s.pos + 1, to),
             eof |-> (to = Len(input) /\ s.eofWithData), err |-> ErrNil,
             src |-> [s EXCEPT !.pos = to]]

\* newDataReaderSize that takes a Read of fewer bytes than the buffer holds
\* for the end of the input, and drops the reader.
newDataReaderShortIsEOF(w, size) ==
    LET rd == Read(w.src, size)
        d == [r |-> ~(rd.eof \/ Len(rd.data) < size), buf |-> rd.data,
              cap |-> size, next |-> 0, err |-> rd.err]
    IN [nodes |-> Append(w.nodes, d), src |-> rd.src, pulls |-> w.pulls + 1]

\* newDataReaderSize(r, size): one Read into a fresh buffer of size bytes; the
\* node keeps the reader unless the Read returned io.EOF, and keeps any other
\* error of the Read in err (`d.err = err`).  The node is appended to w.nodes
\* and is the last element of the result's nodes.
newDataReaderSize(w, size) ==
    LET rd == Read(w.src, size)
        d == [r |-> ~rd.eof, buf |-> rd.data, cap |-> size, next |-> 0,
              err |-> rd.err]
    IN [nodes |-> Append(w.nodes, d), src |-> rd.src, pulls |-> w.pulls + 1]

\* newDataString / newDataBytes: one node holding the whole input, no reader.
newDataBytes(b) ==
    [r |-> FALSE, buf |-> b, cap |-> Len(b), next |-> 0, err |-> ErrNil]

\* A pull for the next node that offers a buffer of the floor size, whatever
\* the size of the node's own buffer.
SetNextOfFloorSize(w, i) ==
    LET w2 == newDataReaderSize(w, minDataSize)
    IN [w2 EXCEPT !.nodes[i].next = Len(w2.nodes)]

\* s.data.next = newDataReaderSize(s.data.r, cap(s.data.buf))
SetNext(w, i) ==
    LET w2 == newDataReaderSize(w, w.nodes[i].cap)
    IN [w2 EXCEPT !.nodes[i].next = Len(w2.nodes)]

\* -------------------------------------------------------------------- State
Position(s) == [Offset |-> s.offset, Line |-> s.line + 1, Column |-> s.column + 1]

ZeroState == [data |-> 0, datap |-> 0, offset |-> 0, line |-> 0, column |-> 0]

\* The State the constructors return: the first node, nothing consumed.
InitState == [ZeroState EXCEPT !.data = 1]

nextDataState(w, s) ==
    [data |-> w.nodes[s.data].next, datap |-> 0,
     offset |-> s.offset, line |-> s.line, column |-> s.column]

consume(s, count, v) ==
    [s EXCEPT !.datap = s.datap + count,
              !.offset = s.offset + count,
              !.line = IF v = 10 THEN s.line + 1 ELSE s.line,
              !.column = IF v = 10 THEN 0 ELSE s.column + 1]

Result(v, s, e, w) == [val |-> v, st |-> s, err |-> e, w |-> w]

\* Byte() that takes a Read of no bytes for the end of the input.
RECURSIVE ByteEmptyReadIsEOF(_, _)
ByteEmptyReadIsEOF(w, s) ==
    IF s.data = 0 THEN Result(0, s, ErrPanic, w)
    ELSE LET d == w.nodes[s.data] IN
         IF s.datap < Len(d.buf)
         THEN LET b == d.buf[s.datap + 1] IN Result(b, consume(s, 1, b), ErrNil, w)
         ELSE IF d.r /\ d.next = 0
         THEN LET w2 == SetNext(w, s.data)
              IN IF w2.nodes[Len(w2.nodes)].buf = <<>>
                 THEN Result(0, nextDataState(w2, s), ErrEOF, w2)
                 ELSE ByteEmptyReadIsEOF(w2, nextDataState(w2, s))
         ELSE IF d.next # 0
         THEN ByteEmptyReadIsEOF(w, nextDataState(w, s))
         ELSE Result(0, s, ErrEOF, w)

\* Byte() that reads from the source at the end of a node without looking
\* whether next is set.
RECURSIVE ByteRepulls(_, _)
ByteRepulls(w, s) ==
    IF s.data = 0 THEN Result(0, s, ErrPanic, w)
    ELSE LET d == w.nodes[s.data] IN
         IF s.datap < Len(d.buf)
         THEN LET b == d.buf[s.datap + 1] IN Result(b, consume(s, 1, b), ErrNil, w)
         ELSE IF d.r
         THEN LET w2 == SetNext(w, s.data) IN ByteRepulls(w2, nextDataState(w2, s))
         ELSE IF d.next # 0
         THEN ByteRepulls(w, nextDataState(w, s))
         ELSE Result(0, s, ErrEOF, w)

\* Byte() that checks for the missing node and reports the end of the input.
RECURSIVE ByteZeroIsEOF(_, _)
ByteZeroIsEOF(w, s) ==
    IF s.data = 0 THEN Result(0, s, ErrEOF, w)
    ELSE LET d == w.nodes[s.data] IN
         IF s.datap < Len(d.buf)
         THEN LET b == d.buf[s.datap + 1] IN Result(b, consume(s, 1, b), ErrNil, w)
         ELSE IF d.r /\ d.next = 0
         THEN LET w2 == SetNext(w, s.data) IN ByteZeroIsEOF(w2, nextDataState(w2, s))
         ELSE IF d.next # 0
         THEN ByteZeroIsEOF(w, nextDataState(w, s))
         ELSE Result(0, s, ErrEOF, w)

\* Byte() that returns a zero byte and no error where the input has ended.
RECURSIVE ByteEndIsZeroByte(_, _)
ByteEndIsZeroByte(w, s) ==
    IF s.data = 0 THEN Result(0, s, ErrPanic, w)
    ELSE LET d == w.nodes[s.data] IN
         IF s.datap < Len(d.buf)
         THEN LET b == d.buf[s.datap + 1] IN Result(b, consume(s, 1, b), ErrNil, w)
         ELSE IF d.r /\ d.next = 0
         THEN LET w2 == SetNext(w, s.data) IN ByteEndIsZeroByte(w2, nextDataState(w2, s))
         ELSE IF d.next # 0
         THEN ByteEndIsZeroByte(w, nextDataState(w, s))
         ELSE Result(0, s, ErrNil, w)

RECURSIVE Byte(_, _)
Byte(w, s) ==
    IF s.data = 0 THEN Result(0, s, ErrPanic, w)
    ELSE LET d == w.nodes[s.data] IN
         IF s.datap < Len(d.buf)
         THEN LET b == d.buf[s.datap + 1] IN Result(b, consume(s, 1, b), ErrNil, w)
         ELSE IF d.r /\ d.next = 0
         THEN LET w2 == SetNext(w, s.data) IN Byte(w2, nextDataState(w2, s))
         ELSE IF d.next # 0
         THEN Byte(w, nextDataState(w, s))
         ELSE Result(0, s, ErrEOF, w)

\* Rune() whose decode across the boundary reads from the source without
\* looking whether next is set.
RECURSIVE RuneRepulls(_, _)
RuneRepulls(w, s) ==
    IF s.data = 0 THEN Result(0, s, ErrPanic, w)
    ELSE LET d == w.nodes[s.data] IN
         IF s.datap < Len(d.buf)
         THEN LET tail == SubSeq(d.buf, s.datap + 1, Len(d.buf))
                  dr == DecodeRune(tail)
              IN IF dr.r = RuneErrorValue
                 THEN IF ~d.r
                      THEN Result(0, s, RuneError(Position(s)), w)
                      ELSE LET w2 == SetNext(w, s.data)
                               nx == w2.nodes[w2.nodes[s.data].next]
                               nextDataPMax == Min(Len(nx.buf), nextDataPLimit)
                               runeBytes == tail \o SubSeq(nx.buf, 1, nextDataPMax)
                               dr2 == DecodeRune(runeBytes)
                           IN IF dr2.r = RuneErrorValue
                              THEN Result(0, s, RuneError(Position(s)), w2)
                              ELSE Result(dr2.r,
                                          [nextDataState(w2, s) EXCEPT
                                              !.datap = dr2.rs - Len(tail)],
                                          ErrNil, w2)
                 ELSE Result(dr.r, consume(s, dr.rs, dr.r), ErrNil, w)
         ELSE IF d.r /\ d.next = 0
         THEN LET w2 == SetNext(w, s.data) IN RuneRepulls(w2, nextDataState(w2, s))
         ELSE IF d.next # 0
         THEN RuneRepulls(w, nextDataState(w, s))
         ELSE Result(0, s, ErrEOF, w)

RECURSIVE Rune(_, _)
Rune(w, s) ==
    IF s.data = 0 THEN Result(0, s, ErrPanic, w)
    ELSE LET d == w.nodes[s.data] IN
         IF s.datap < Len(d.buf)
         THEN LET tail == SubSeq(d.buf, s.datap + 1, Len(d.buf))
                  dr == DecodeRune(tail)
              IN IF dr.r = RuneErrorValue
                 THEN IF ~d.r
                      THEN Result(0, s, RuneError(Position(s)), w)
                      ELSE LET w2 == IF d.next = 0 THEN SetNext(w, s.data) ELSE w
                               nx == w2.nodes[w2.nodes[s.data].next]
                               nextDataPMax == Min(Len(nx.buf), nextDataPLimit)
                               runeBytes == tail \o SubSeq(nx.buf, 1, nextDataPMax)
                               dr2 == DecodeRune(runeBytes)
                           IN IF dr2.r = RuneErrorValue
                              THEN Result(0, s, RuneError(Position(s)), w2)
                              ELSE Result(dr2.r,
                                          [nextDataState(w2, s) EXCEPT
                                              !.datap = dr2.rs - Len(tail)],
                                          ErrNil, w2)
                 ELSE Result(dr.r, consume(s, dr.rs, dr.r), ErrNil, w)
         ELSE IF d.r /\ d.next = 0
         THEN LET w2 == SetNext(w, s.data) IN Rune(w2, nextDataState(w2, s))
         ELSE IF d.next # 0
         THEN Rune(w, nextDataState(w, s))
         ELSE Result(0, s, ErrEOF, w)

\* copy(dst, src) into a destination of n bytes made by make([]byte, n): the
\* first n bytes of src, and zero bytes where src is shorter.
CopyInto(n, bytes) ==
    [i \in 1..n |-> IF i <= Len(bytes) THEN bytes[i] ELSE 0]

\* The loop of keepBytes: the buffers of the nodes from node i up to, not
\* including, the node of end.  nextDataState() panics where next is unset,
\* which a chain that leads from start to end does not have.
RECURSIVE KeepWhole(_, _, _)
KeepWhole(w, i, e) ==
    IF i = e \/ i = 0 THEN <<>>
    ELSE w.nodes[i].buf \o KeepWhole(w, w.nodes[i].next, e)

\* keepBytes(start, end)
keepBytes(w, start, end) ==
    IF start.data = end.data
    THEN SubSeq(w.nodes[start.data].buf, start.datap + 1, end.datap)
    ELSE LET sb == w.nodes[start.data].buf
             eb == w.nodes[end.data].buf
         IN CopyInto(end.offset - start.offset,
                     SubSeq(sb, start.datap + 1, Len(sb))
                         \o KeepWhole(w, w.nodes[start.data].next, end.data)
                         \o SubSeq(eb, 1, end.datap))

\* ------------------------------------------------------------- combinators
Empty == 0

\* The scalar values of `for _, tokenRune := range token`: a byte that starts
\* no well-formed encoding yields U+FFFD and is one byte wide.
RECURSIVE StringRunes(_)
StringRunes(tok) ==
    IF tok = <<>> THEN <<>>
    ELSE LET dr == DecodeRune(tok)
         IN <<dr.r>> \o StringRunes(SubSeq(tok, dr.rs + 1, Len(tok)))

\* The element of a one-element set.  Only({ e(x) : x \in {call} }) is e of
\* the result of the call, with the call made once.
Only(S) == CHOOSE y \in S : TRUE

RECURSIVE ExactStringLoop(_, _, _, _)
ExactStringLoop(w, s, next, runes) ==
    IF runes = <<>> THEN Result(Empty, next, ErrNil, w)
    ELSE Only({ IF rr.err # ErrNil THEN Result(Empty, s, rr.err, rr.w)
                ELSE IF Head(runes) # rr.val THEN Result(Empty, s, ErrNoMatch, rr.w)
                ELSE ExactStringLoop(rr.w, s, rr.st, Tail(runes))
                : rr \in {Rune(w, next)} })

ExactString(token, w, s) == ExactStringLoop(w, s, s, StringRunes(token))

RECURSIVE ExactBytesLoop(_, _, _, _)
ExactBytesLoop(w, s, next, token) ==
    IF token = <<>> THEN Result(Empty, next, ErrNil, w)
    ELSE Only({ IF rb.err # ErrNil THEN Result(Empty, s, rb.err, rb.w)
                ELSE IF Head(token) # rb.val THEN Result(Empty, s, ErrNoMatch, rb.w)
                ELSE ExactBytesLoop(rb.w, s, rb.st, Tail(token))
                : rb \in {Byte(w, next)} })

ExactBytes(token, w, s) == ExactBytesLoop(w, s, s, token)

\* A Parser[Empty] value: the literal matcher it was built as, and its token.
StringParser(token) == [op |-> "ExactString", tok |-> token]
BytesParser(token) == [op |-> "ExactBytes", tok |-> token]

\* The call parser(s) of a Parser value.
Apply(parser, w, s) ==
    IF parser.op = "ExactString" THEN ExactString(parser.tok, w, s)
    ELSE ExactBytes(parser.tok, w, s)

\* AndThen(parser, handler): handler[t] is the parser that handler returns
\* for the value t.
AndThen(parser, handler, w, s) ==
    Only({ IF rp.err # ErrNil THEN Result(Empty, s, rp.err, rp.w)
           ELSE Apply(handler[rp.val], rp.w, rp.st)
           : rp \in {Apply(parser, w, s)} })

\* GetString(parser): start and end are both read from the entry State s
\* (`start := s.offset`, `end := s.offset`), and the result is the slice
\* s.buffer[start:end] of the input the State was built over.
GetString(parser, w, s) ==
    LET start == s.offset
        end == s.offset
    IN Only({ IF rp.err # ErrNil THEN Result(<<>>, s, rp.err, rp.w)
              ELSE Result(SubSeq(input, start + 1, end), rp.st, ErrNil, rp.w)
              : rp \in {Apply(parser, w, s)} })

\* GetBytes(parser): as GetString, the slice copied into a fresh []byte of
\* length end-start.
GetBytes(parser, w, s) ==
    LET start == s.offset
        end == s.offset
        result == [i \in 1..(end - start) |-> input[start + i]]
    IN Only({ IF rp.err # ErrNil THEN Result(<<>>, s, rp.err, rp.w)
              ELSE Result(result, rp.st, ErrNil, rp.w)
              : rp \in {Apply(parser, w, s)} })

\* GetPositions(parser): start and end are both s.Position() of the entry
\* State s; a failure returns the zero [2]Position.
GetPositions(parser, w, s) ==
    LET start == Position(s)
        end == Position(s)
        zero == [Offset |-> 0, Line |-> 0, Column |-> 0]
    IN Only({ IF rp.err # ErrNil THEN Result(<<zero, zero>>, s, rp.err, rp.w)
              ELSE Result(<<start, end>>, rp.st, ErrNil, rp.w)
              : rp \in {Apply(parser, w, s)} })

\* ConditionRune(cond) that returns the State after the scalar value it
\* rejects.
ConditionRuneKeepsNext(cond, w, s) ==
    Only({ IF rr.err # ErrNil THEN Result(0, s, rr.err, rr.w)
           ELSE IF rr.val \notin cond THEN Result(0, rr.st, ErrNoMatch, rr.w)
           ELSE Result(rr.val, rr.st, ErrNil, rr.w)
           : rr \in {Rune(w, s)} })

\* ConditionRune(cond); cond is the set of the scalar values it accepts.
ConditionRune(cond, w, s) ==
    Only({ IF rr.err # ErrNil THEN Result(0, s, rr.err, rr.w)
           ELSE IF rr.val \notin cond THEN Result(0, s, ErrNoMatch, rr.w)
           ELSE Result(rr.val, rr.st, ErrNil, rr.w)
           : rr \in {Rune(w, s)} })

\* Conditions handed to ConditionRune: 'a' alone; line feed, U+221E and U+2208.
Conds == { {97}, {10, 8734, 8712} }

\* The error a mapper returns.
ErrMapper == [kind |-> "mapper", pos |-> NoPos]

\* The mappers handed to Sequence2, as what they return for (Empty, Empty):
\* a value, or an error.
Mappers == { [val |-> 1, err |-> ErrNil], [val |-> 0, err |-> ErrMapper] }

\* Sequence2(tParser, uParser, mapper): uParser is called on the entry State
\* s (`u, next, err = uParser(s)`).
Sequence2(tParser, uParser, mapper, w, s) ==
    Only({ IF rt.err # ErrNil THEN Result(0, s, rt.err, rt.w)
           ELSE Only({ IF ru.err # ErrNil THEN Result(0, s, ru.err, ru.w)
                       ELSE IF mapper.err # ErrNil THEN Result(0, s, mapper.err, ru.w)
                       ELSE Result(mapper.val, ru.st, ErrNil, ru.w)
                       : ru \in {Apply(uParser, rt.w, s)} })
           : rt \in {Apply(tParser, w, s)} })

\* Tokens handed to the literal matchers.
Tokens == { Flatten(us) : us \in SeqsUpTo(Units, MaxTokUnits) } \ {<<>>}

\* ------------------------------------------------------------ the caller
NoCall == [op |-> "none", tok |-> <<>>, tok2 |-> <<>>, s |-> ZeroState,
           val |-> 0, st |-> ZeroState, err |-> ErrNil]

Call(op, tok, tok2, s, res) ==
    [op |-> op, tok |-> tok, tok2 |-> tok2, s |-> s,
     val |-> res.val, st |-> res.st, err |-> res.err]

FreshTrav == [mode |-> "start", out |-> <<>>, err |-> ErrNil]
OffTrav == [mode |-> "off", out |-> <<>>, err |-> ErrNil]

\* The loop of allStateBytes / allStateRunes: a value is appended while the
\* call returns no error, and the first error ends the traversal.  A
\* traversal that mixes Byte and Rune is not followed.
Advance(t, op, res) ==
    IF t.mode = "off" \/ t.err # ErrNil THEN t
    ELSE IF t.mode \notin {"start", op} THEN OffTrav
    ELSE IF res.err = ErrNil
         THEN [mode |-> op, out |-> Append(t.out, res.val), err |-> ErrNil]
         ELSE [mode |-> op, out |-> t.out, err |-> res.err]

\* What every call does to the shared chain and to what the caller holds.
Returned(op, tok, tok2, res) ==
    /\ nodes' = res.w.nodes
    /\ src' = res.w.src
    /\ pulls' = res.w.pulls
    /\ cur' = res.st
    /\ last' = Call(op, tok, tok2, cur, res)
    /\ UNCHANGED <<input, kind, thr>>

\* Two threads that may call Byte() or Rune() at the same time.  A thread in
\* a call at the end of a node is before the test of r and next ("check"),
\* before its Read ("pull"), before the store to next ("link"), before
\* nextDataState() ("follow"), or has returned ("done").
Threads == {1, 2}

IdleThread ==
    [pc |-> "idle", op |-> "none", s |-> ZeroState, new |-> 0, nx |-> 0,
     val |-> 0, st |-> ZeroState, err |-> ErrNil]

Init ==
    /\ \/ /\ kind = "mem"
          /\ input \in Inputs
          /\ nodes = <<newDataBytes(input)>>
          /\ src = [pos |-> Len(input), cuts |-> {}, zeros |-> {}, fails |-> {},
                    eofWithData |-> FALSE]
          /\ pulls = 0
       \/ /\ kind = "reader"
          /\ input \in Inputs
          /\ \E size \in Sizes, e \in BOOLEAN,
                cs \in SUBSET (1..(Len(input) - 1)),
                zs \in SUBSET (0..Len(input)) :
                /\ Cardinality(cs) <= MaxCuts
                /\ Cardinality(zs) <= MaxZeros
                /\ LET w0 == [nodes |-> <<>>, pulls |-> 0,
                              src |-> [pos |-> 0, cuts |-> cs, zeros |-> zs,
                                       fails |-> {}, eofWithData |-> e]]
                       w1 == newDataReaderSize(w0, Max(size, minDataSize))
                   IN nodes = w1.nodes /\ src = w1.src /\ pulls = w1.pulls
       \/ /\ kind = "reader"
          /\ input \in TestInputs
          /\ \E size \in Sizes :
                LET w0 == [nodes |-> <<>>, pulls |-> 0,
                           src |-> [pos |-> 0, cuts |-> {}, zeros |-> {},
                                    fails |-> {}, eofWithData |-> FALSE]]
                    w1 == newDataReaderSize(w0, Max(size, minDataSize))
                IN nodes = w1.nodes /\ src = w1.src /\ pulls = w1.pulls
    /\ cur = InitState
    /\ trav = FreshTrav
    /\ last = NoCall
    /\ thr = [t \in Threads |-> IdleThread]

\* b, s, err = s.Byte()
CallByte ==
    \E res \in {Byte(World, cur)} :
        /\ Returned("Byte", <<>>, <<>>, res)
        /\ trav' = Advance(trav, "Byte", res)

\* r, s, err = s.Rune()
CallRune ==
    \E res \in {Rune(World, cur)} :
        /\ Returned("Rune", <<>>, <<>>, res)
        /\ trav' = Advance(trav, "Rune", res)

\* The caller starts over from the initial State, which it kept: a second
\* traversal over nodes that are already linked.
Restart ==
    /\ cur # InitState
    /\ cur' = InitState
    /\ trav' = FreshTrav
    /\ last' = NoCall
    /\ UNCHANGED <<input, kind, nodes, src, pulls, thr>>

RunExactString ==
    \E tok \in Tokens :
        /\ last.err = ErrNil
        /\ \E res \in {ExactString(tok, World, cur)} :
              Returned("ExactString", tok, <<>>, res)
        /\ trav' = OffTrav

RunExactBytes ==
    \E tok \in Tokens :
        /\ last.err = ErrNil
        /\ \E res \in {ExactBytes(tok, World, cur)} :
              Returned("ExactBytes", tok, <<>>, res)
        /\ trav' = OffTrav

\* AndThen(ExactString(tok), func(_ Empty) Parser[Empty] { return ExactBytes(tok2) })
RunAndThen ==
    \E tok \in Tokens, tok2 \in Tokens :
        /\ last.err = ErrNil
        /\ \E res \in {AndThen(StringParser(tok),
                                [v \in {Empty} |-> BytesParser(tok2)],
                                World, cur)} :
              Returned("AndThen", tok, tok2, res)
        /\ trav' = OffTrav

\* GetPositions(ExactString(tok))
RunGetPositions ==
    \E tok \in Tokens :
        /\ last.err = ErrNil
        /\ \E res \in {GetPositions(StringParser(tok), World, cur)} :
              Returned("GetPositions", tok, <<>>, res)
        /\ trav' = OffTrav

\* ConditionRune(cond); the call record keeps cond in the place of the token.
RunConditionRune ==
    \E cond \in Conds :
        /\ last.err = ErrNil
        /\ \E res \in {ConditionRune(cond, World, cur)} :
              Returned("ConditionRune", cond, <<>>, res)
        /\ trav' = OffTrav

\* Sequence2(ExactString(tok), ExactBytes(tok2), mapper); the call record
\* keeps the mapper beside the second token.
RunSequence2 ==
    \E tok \in Tokens, tok2 \in Tokens, mapper \in Mappers :
        /\ last.err = ErrNil
        /\ \E res \in {Sequence2(StringParser(tok), BytesParser(tok2), mapper,
                                  World, cur)} :
              Returned("Sequence2", tok, <<tok2, mapper>>, res)
        /\ trav' = OffTrav

\* One call of the traversal in mode op.
Step(op, w, s) == IF op = "Byte" THEN Byte(w, s) ELSE Rune(w, s)

\* The States a traversal in mode op holds on its way from s to target.
RECURSIVE StatesUpTo(_, _, _)
StatesUpTo(op, s, target) ==
    IF s = target THEN {s}
    ELSE {s} \cup UNION { IF r.err # ErrNil THEN {}
                          ELSE StatesUpTo(op, r.st, target)
                          : r \in {Step(op, World, s)} }

\* keepBytes(start, cur) for a State start the traversal held earlier
CallKeepBytes ==
    /\ trav.mode \in {"Byte", "Rune"}
    /\ trav.err = ErrNil
    /\ \E start \in StatesUpTo(trav.mode, InitState, cur) :
          last' = [op |-> "keepBytes", tok |-> <<>>, tok2 |-> <<>>, s |-> start,
                   val |-> keepBytes(World, start, cur), st |-> cur, err |-> ErrNil]
    /\ UNCHANGED <<input, kind, nodes, src, pulls, cur, trav, thr>>

\* State{}.Byte(): the call panics and nothing is returned to the caller.
CallByteOnZero ==
    /\ \E res \in {Byte(World, ZeroState)} :
          last' = Call("Byte", <<>>, <<>>, ZeroState, res)
    /\ UNCHANGED <<input, kind, nodes, src, pulls, cur, trav, thr>>

\* State{}.Rune()
CallRuneOnZero ==
    /\ \E res \in {Rune(World, ZeroState)} :
          last' = Call("Rune", <<>>, <<>>, ZeroState, res)
    /\ UNCHANGED <<input, kind, nodes, src, pulls, cur, trav, thr>>

\* b, s, err = s.Byte() by the one caller, while no thread is in a call.
SeqByte ==
    /\ \A t \in Threads : thr[t].pc = "idle"
    /\ CallByte

\* Both threads call Byte() or Rune() on the State cur, which is at the end
\* of a node that has a reader and no next.
Fork ==
    /\ \A t \in Threads : thr[t].pc = "idle"
    /\ cur.datap = Len(nodes[cur.data].buf)
    /\ nodes[cur.data].r
    /\ nodes[cur.data].next = 0
    /\ \E ops \in [Threads -> {"Byte", "Rune"}] :
          thr' = [t \in Threads |->
                     [IdleThread EXCEPT !.pc = "check", !.op = ops[t], !.s = cur]]
    /\ UNCHANGED <<input, kind, nodes, src, pulls, cur, trav, last>>

\* `if s.data.r != nil && s.data.next == nil`, then `if s.data.next != nil`,
\* then `return 0, s, io.EOF`
ThreadCheck(t) ==
    /\ thr[t].pc = "check"
    /\ LET d == nodes[thr[t].s.data]
       IN thr' = [thr EXCEPT ![t] =
                     IF d.r /\ d.next = 0 THEN [@ EXCEPT !.pc = "pull"]
                     ELSE IF d.next # 0 THEN [@ EXCEPT !.pc = "follow"]
                     ELSE [@ EXCEPT !.pc = "done", !.st = thr[t].s, !.err = ErrEOF]]
    /\ UNCHANGED <<input, kind, nodes, src, pulls, cur, trav, last>>

\* newDataReaderSize(s.data.r, cap(s.data.buf)): the node is made, and held by
\* the thread alone.
ThreadPull(t) ==
    /\ thr[t].pc = "pull"
    /\ \E w2 \in {newDataReaderSize(World, nodes[thr[t].s.data].cap)} :
          /\ nodes' = w2.nodes
          /\ src' = w2.src
          /\ pulls' = w2.pulls
          /\ thr' = [thr EXCEPT ![t].pc = "link", ![t].new = Len(w2.nodes)]
    /\ UNCHANGED <<input, kind, cur, trav, last>>

\* s.data.next = (the node made)
ThreadLink(t) ==
    /\ thr[t].pc = "link"
    /\ nodes' = [nodes EXCEPT ![thr[t].s.data].next = thr[t].new]
    /\ thr' = [thr EXCEPT ![t].pc = "follow"]
    /\ UNCHANGED <<input, kind, src, pulls, cur, trav, last>>

\* return s.nextDataState().Byte() (or .Rune()): next is read as it is now,
\* and the rest of the call is taken as one step.
ThreadFollow(t) ==
    /\ thr[t].pc = "follow"
    /\ \E res \in {Step(thr[t].op, World, nextDataState(World, thr[t].s))} :
          /\ nodes' = res.w.nodes
          /\ src' = res.w.src
          /\ pulls' = res.w.pulls
          /\ thr' = [thr EXCEPT ![t].pc = "done",
                                ![t].nx = nodes[thr[t].s.data].next,
                                ![t].val = res.val, ![t].st = res.st,
                                ![t].err = res.err]
    /\ UNCHANGED <<input, kind, cur, trav, last>>

\* GetString(ExactString(tok))
RunGetString ==
    \E tok \in Tokens :
        /\ last.err = ErrNil
        /\ \E res \in {GetString(StringParser(tok), World, cur)} :
              Returned("GetString", tok, <<>>, res)
        /\ trav' = OffTrav

\* GetBytes(ExactBytes(tok))
RunGetBytes ==
    \E tok \in Tokens :
        /\ last.err = ErrNil
        /\ \E res \in {GetBytes(BytesParser(tok), World, cur)} :
              Returned("GetBytes", tok, <<>>, res)
        /\ trav' = OffTrav

Next ==
    \/ CallByte
    \/ CallRune
    \/ Restart

Spec == Init /\ [][Next]_vars

\* The combinators run from the State the caller holds, each from the State
\* the one before returned; the caller stops at the first error, as DoParse
\* does.
NextParse ==
    \/ RunExactString
    \/ RunExactBytes
    \/ RunAndThen

SpecParse == Init /\ [][NextParse]_vars

\* ------------------------------------------------- reference for the claims
\* Bytes in the nodes before the place of s, plus its offset in its node: the
\* index in the whole input of the next byte s reads.
RECURSIVE LenBefore(_, _)
LenBefore(ns, i) == IF i <= 1 THEN 0 ELSE Len(ns[i - 1].buf) + LenBefore(ns, i - 1)

AbsIndex(s) == LenBefore(nodes, s.data) + s.datap

RestFrom(i) == SubSeq(input, i + 1, Len(input))

IsPrefix(p, q) == Len(p) <= Len(q) /\ SubSeq(q, 1, Len(p)) = p

\* A decode result that stands for a malformed or truncated encoding (the
\* well-formed encoding of U+FFFD is three bytes wide).
IsMalformed(dr) == dr.r = RuneErrorValue /\ dr.rs <= 1

RECURSIVE WellFormed(_)
WellFormed(p) ==
    \/ p = <<>>
    \/ LET dr == DecodeRune(p)
       IN ~IsMalformed(dr) /\ WellFormed(SubSeq(p, dr.rs + 1, Len(p)))

\* The scalar values of a well-formed byte sequence, in order.
RECURSIVE RunesOf(_)
RunesOf(p) ==
    IF p = <<>> THEN <<>>
    ELSE LET dr == DecodeRune(p)
         IN <<dr.r>> \o RunesOf(SubSeq(p, dr.rs + 1, Len(p)))

\* Number of bytes of the encoding of a scalar value.
RuneLen(r) == IF r < 128 THEN 1 ELSE IF r < 2048 THEN 2 ELSE IF r < 65536 THEN 3 ELSE 4

\* Bytes of a malformed sequence starting p: the lead byte and the
\* continuation bytes after it that a longer encoding could still accept.
RECURSIVE ContRun(_, _)
ContRun(p, n) ==
    IF n = 0 \/ p = <<>> \/ ~IsCont(Head(p)) THEN 0 ELSE 1 + ContRun(Tail(p), n - 1)

MalformedLen(p) ==
    IF LeadSize(p[1]) <= 1 THEN 1
    ELSE IF Len(p) >= 2 /\ (p[2] < AcceptLo(p[1]) \/ AcceptHi(p[1]) < p[2]) THEN 1
    ELSE 1 + ContRun(Tail(p), LeadSize(p[1]) - 1)

\* allStateBytes / allStateRunes run in one go from s.
RECURSIVE Traverse(_, _, _, _)
Traverse(op, w, s, out) ==
    LET res == IF op = "Byte" THEN Byte(w, s) ELSE Rune(w, s)
    IN IF res.err # ErrNil THEN [out |-> out, err |-> res.err]
       ELSE Traverse(op, res.w, res.st, Append(out, res.val))

WorldNext == [nodes |-> nodes', src |-> src', pulls |-> pulls']

\* The capturing combinators run over the input, one after the other.
NextCapture ==
    \/ RunGetString
    \/ RunGetBytes
    \/ RunGetPositions
    \/ RunConditionRune

SpecCapture == Init /\ [][NextCapture]_vars

\* A traversal whose caller keeps the bytes between two of its States.
NextKeep ==
    \/ CallByte
    \/ CallRune
    \/ CallKeepBytes

SpecKeep == Init /\ [][NextKeep]_vars

\* Calls on the zero State, beside a State that was constructed.
NextZero ==
    \/ CallByteOnZero
    \/ CallRuneOnZero

SpecZero == Init /\ [][NextZero]_vars

\* One caller reads bytes up to the end of a node; there two threads call
\* at the same time, their steps interleaved.
NextConc ==
    \/ SeqByte
    \/ Fork
    \/ \E t \in Threads : ThreadCheck(t)
    \/ \E t \in Threads : ThreadPull(t)
    \/ \E t \in Threads : ThreadLink(t)
    \/ \E t \in Threads : ThreadFollow(t)

SpecConc == Init /\ [][NextConc]_vars

\* A reader whose source fails some Read with an error other than io.EOF.
InitFail ==
    /\ kind = "reader"
    /\ input \in Inputs
    /\ \E size \in Sizes, e \in BOOLEAN,
          cs \in SUBSET (1..(Len(input) - 1)),
          fs \in SUBSET (0..Len(input)) :
          /\ Cardinality(cs) <= MaxCuts
          /\ fs # {} /\ Cardinality(fs) <= MaxFails
          /\ LET w0 == [nodes |-> <<>>, pulls |-> 0,
                        src |-> [pos |-> 0, cuts |-> cs, zeros |-> {},
                                 fails |-> fs, eofWithData |-> e]]
                 w1 == newDataReaderSize(w0, Max(size, minDataSize))
             IN nodes = w1.nodes /\ src = w1.src /\ pulls = w1.pulls
    /\ cur = InitState
    /\ trav = FreshTrav
    /\ last = NoCall
    /\ thr = [t \in Threads |-> IdleThread]

\* Byte() and Rune() over a source with failing reads.
NextFail == CallByte \/ CallRune

SpecFail == InitFail /\ [][NextFail]_vars

\* Sequence2 run over the input, one call after the other.
NextSeq == RunSequence2

SpecSeq == Init /\ [][NextSeq]_vars

\* ------------------------------------------------------------------ claims

\* The source has filled every buffer it was handed until the input ended:
\* no read stopped early and none returned no bytes.
FullReads ==
    /\ src.cuts = {}
    /\ src.zeros = {}
    /\ \A i \in 1..Len(nodes) : nodes[i].buf = <<>> => ~nodes[i].r

\* C1: for well-formed UTF-8 input read through NewStateReaderSize, a
\* traversal by Rune() from the initial State yields the input's scalar values
\* in order and ends with io.EOF.  (Stated for a source that fills every
\* buffer, as the readers of the tests do.)
C1_RuneTraversalReproducesInput ==
    (kind = "reader" /\ FullReads /\ trav.mode = "Rune" /\ WellFormed(input))
        => /\ IsPrefix(trav.out, RunesOf(input))
           /\ trav.err # ErrNil => (trav.err = ErrEOF /\ trav.out = RunesOf(input))

\* No encoding of U+FFFD in the input.
NoSentinel == \A i \in 0..Len(input) : ~IsPrefix(<<239, 191, 189>>, RestFrom(i))

\* What remains of C1 on input without U+FFFD.
RuneTraversalWithoutSentinel == NoSentinel => C1_RuneTraversalReproducesInput

\* C2: a traversal by Byte() from the initial State yields the input's bytes
\* in order, none lost, duplicated or reordered, and ends with io.EOF.
C2_ByteTraversalReproducesInput ==
    trav.mode = "Byte"
        => /\ IsPrefix(trav.out, input)
           /\ trav.err # ErrNil => (trav.err = ErrEOF /\ trav.out = input)

C2_Witness ==
    /\ kind = "reader"
    /\ trav.mode = "Byte"
    /\ trav.err = ErrEOF
    /\ Len(trav.out) >= 4
    /\ Len(nodes) >= 4
    /\ \E i \in 1..Len(nodes) : nodes[i].buf = <<>> /\ nodes[i].r

\* The States over every place of the chain, with the position counters of a
\* State the caller holds: these include every State the caller holds.
Places ==
    LET held == {cur, InitState} \cup
                (IF last.op = "none" THEN {} ELSE {last.s, last.st})
        at == UNION { { <<i, p>> : p \in 0..Len(nodes[i].buf) } : i \in 1..Len(nodes) }
    IN { [c EXCEPT !.data = ip[1], !.datap = ip[2]] : c \in held, ip \in at }

SameCall(a, b) == a.val = b.val /\ a.err = b.err /\ a.st = b.st

\* A call on t returns the same before and after the step.
StableStep ==
    nodes' # nodes =>
        \A t \in Places :
            /\ SameCall(Byte(World, t), Byte(WorldNext, t))
            /\ SameCall(Rune(World, t), Rune(WorldNext, t))

\* A finished traversal from the initial State, run again over the chain as
\* it is now, gives the same values and the same error.
TraversalRepeats ==
    (trav.mode \in {"Byte", "Rune"} /\ trav.err # ErrNil)
        => Traverse(trav.mode, World, InitState, <<>>)
              = [out |-> trav.out, err |-> trav.err]

\* C3: a call of s.Byte() or s.Rune() returns the same value, error and State
\* whenever it is made, whatever calls extended the chain in between; two
\* full traversals from the initial State give identical output.
C3_ReplayIsIdempotent == []TraversalRepeats /\ [][StableStep]_vars

\* A Byte() call made again on the initial State after the whole chain of at
\* least three nodes was linked by earlier calls.
C3_Witness ==
    /\ kind = "reader"
    /\ last.op = "Byte"
    /\ last.s = InitState
    /\ last.st.data = 1
    /\ Len(nodes) >= 3
    /\ ~nodes[Len(nodes)].r

\* The number of Read calls is the number of nodes read from the source.
PullsMatchNodes ==
    /\ kind = "reader" => pulls = Len(nodes)
    /\ kind = "mem" => (pulls = 0 /\ Len(nodes) = 1)

\* A node that exists keeps its buffer and its reader, and its next link
\* changes only from unset to set.
SetOnceStep ==
    /\ Len(nodes') >= Len(nodes)
    /\ \A i \in 1..Len(nodes) :
          /\ nodes'[i].buf = nodes[i].buf
          /\ nodes'[i].r = nodes[i].r
          /\ nodes[i].next # 0 => nodes'[i].next = nodes[i].next

\* Byte() at the end of a node whose next is set and holds a byte makes no
\* Read call.
BoundaryNoPullStep ==
    ( /\ last'.op = "Byte"
      /\ cur.data # 0
      /\ cur.datap = Len(nodes[cur.data].buf)
      /\ nodes[cur.data].next # 0
      /\ nodes[nodes[cur.data].next].buf # <<>> )
        => (pulls' = pulls /\ nodes' = nodes)

\* C4: each node's next link is written at most once and never replaced or
\* cleared, the number of pulls equals the number of nodes, and a read at the
\* boundary of a node whose next is set performs no pull.
C4_NextIsSetOnce == []PullsMatchNodes /\ [][SetOnceStep /\ BoundaryNoPullStep]_vars

\* A Byte() call that started at the end of a node and returned a State in a
\* later node that is not the last one: the link it followed was already set.
C4_Witness ==
    /\ kind = "reader"
    /\ last.op = "Byte"
    /\ last.err = ErrNil
    /\ last.s.datap = Len(nodes[last.s.data].buf)
    /\ last.st.data > last.s.data
    /\ Len(nodes) > last.st.data
    /\ pulls = Len(nodes)

\* The well-formed encoding of U+FFFD.
SentinelBytes == <<239, 191, 189>>

\* C5: Rune() at the well-formed 3-byte encoding of U+FFFD returns U+FFFD, a
\* nil error and a State whose Offset is 3 greater.
C5_SentinelDecodes ==
    (last.op = "Rune" /\ IsPrefix(SentinelBytes, RestFrom(AbsIndex(last.s))))
        => /\ last.val = RuneErrorValue
           /\ last.err = ErrNil
           /\ Position(last.st).Offset = Position(last.s).Offset + 3

\* The last call was a Rune() that decoded a scalar value whose encoding
\* begins in one node and ends in the next: the State it returned is fewer
\* bytes into its node than the encoding is wide.
Straddled ==
    /\ last.op = "Rune"
    /\ last.err = ErrNil
    /\ last.st.datap < RuneLen(last.val)

\* C6: after a decode that straddles two nodes the returned State is in the
\* next node right behind the encoding, and its Position is advanced as for a
\* decode within one node: Offset by the width, Column by 1.
C6_StraddlingDecodeAdvancesPosition ==
    Straddled
        => /\ AbsIndex(last.st) = AbsIndex(last.s) + RuneLen(last.val)
           /\ Position(last.st).Offset = Position(last.s).Offset + RuneLen(last.val)
           /\ Position(last.st).Column = Position(last.s).Column + 1
           /\ Position(last.st).Line = Position(last.s).Line

\* The bytes left in the node that holds the byte of index i.
LeftInNode(i) ==
    LET j == CHOOSE k \in 1..Len(nodes) :
                 LenBefore(nodes, k) <= i /\ i < LenBefore(nodes, k) + Len(nodes[k].buf)
    IN LenBefore(nodes, j) + Len(nodes[j].buf) - i

\* The last call was a Rune() of a traversal by Rune() from the initial
\* State, made where the input holds a malformed encoding.
AtMalformed ==
    /\ last.op = "Rune"
    /\ trav.mode = "Rune"
    /\ AbsIndex(last.s) < Len(input)
    /\ IsMalformed(DecodeRune(RestFrom(AbsIndex(last.s))))

RuneErrorAtStart ==
    /\ last.err.kind = "RuneError"
    /\ last.err.pos.Offset = AbsIndex(last.s)
    /\ AbsIndex(last.st) = AbsIndex(last.s)

\* C7: at a malformed encoding whose bytes straddle two chunks Rune() returns
\* a RuneError whose Offset is the index in the input of the first byte of
\* the malformed sequence.
C7_StraddlingMalformedOffset ==
    ( /\ kind = "reader"
      /\ AtMalformed
      /\ LeftInNode(AbsIndex(last.s)) < MalformedLen(RestFrom(AbsIndex(last.s))) )
        => RuneErrorAtStart

\* C8: at a malformed encoding that lies within one chunk Rune() returns a
\* RuneError whose Offset is the index in the input of the first byte of the
\* malformed sequence, and a State not advanced past that byte.
C8_InChunkMalformedOffset ==
    ( /\ AtMalformed
      /\ LeftInNode(AbsIndex(last.s)) >= MalformedLen(RestFrom(AbsIndex(last.s))) )
        => RuneErrorAtStart

\* What the claims about C7 and C8 come to once the Offset is left out: the
\* error and the State that does not move.
MalformedIsRejected ==
    AtMalformed => (last.err.kind = "RuneError" /\ AbsIndex(last.st) = AbsIndex(last.s))

\* C9: AndThen(p, f) returns the value and State of f's parser when both
\* succeed, and the error with the entry State s when p or f's parser fails.
C9_AndThenFailsAtEntry ==
    last.op = "AndThen"
        => LET rp == ExactString(last.tok, World, last.s)
               rq == ExactBytes(last.tok2, World, rp.st)
           IN IF rp.err # ErrNil
              THEN last.err = rp.err /\ last.st = last.s
              ELSE IF rq.err # ErrNil
              THEN last.err = rq.err /\ last.st = last.s
              ELSE last.err = ErrNil /\ last.st = rq.st /\ last.val = rq.val

\* The part of C9 the code keeps: the value, the error and the State of a
\* success, and the entry State when the first parser fails.
AndThenFirstFailureAtEntry ==
    last.op = "AndThen"
        => LET rp == ExactString(last.tok, World, last.s)
               rq == ExactBytes(last.tok2, World, rp.st)
           IN IF rp.err # ErrNil
              THEN last.err = rp.err /\ last.st = last.s
              ELSE last.err = rq.err /\ last.st = rq.st /\ last.val = rq.val

\* What a literal matcher run from the State at index i has to return: on
\* input that starts with the token the State len(token) bytes on; otherwise
\* the entry State with ErrNoMatch or the error of the read, which is io.EOF
\* only where the input ends inside the token and, for ExactBytes, always
\* there.
LiteralContract ==
    LET i == AbsIndex(last.s)
        rest == RestFrom(i)
    IN IF IsPrefix(last.tok, rest)
       THEN /\ last.err = ErrNil
            /\ AbsIndex(last.st) = i + Len(last.tok)
            /\ Position(last.st).Offset = Position(last.s).Offset + Len(last.tok)
       ELSE /\ last.st = last.s
            /\ last.err.kind \in {"ErrNoMatch", "EOF", "RuneError"}
            /\ last.err = ErrEOF => IsPrefix(rest, last.tok)
            /\ last.op = "ExactBytes" =>
                  last.err = (IF IsPrefix(rest, last.tok) THEN ErrEOF ELSE ErrNoMatch)

\* C10: ExactString(token) and ExactBytes(token) succeed exactly when the
\* input at s starts with token, returning a State len(token) bytes after s;
\* otherwise they return s with ErrNoMatch on a mismatch and the read error
\* on input that ends before the token is matched.  (Stated for every token
\* of ExactBytes and every well-formed token of ExactString.)
C10_LiteralMatchers ==
    ( \/ last.op = "ExactBytes"
      \/ last.op = "ExactString" /\ WellFormed(last.tok) )
        => LiteralContract

\* The part of C10 about ExactBytes alone.
ExactBytesContract ==
    last.op = "ExactBytes" => LiteralContract

\* The parser that the last capturing call wrapped, and what it returns from
\* the State the call was made on.
Wrapped ==
    IF last.op = "GetBytes" THEN BytesParser(last.tok) ELSE StringParser(last.tok)

WrappedResult == Apply(Wrapped, World, last.s)

\* C11: when p succeeds from s with State s', GetString(p) and GetBytes(p)
\* return the input bytes between s and s', s'.Offset - s.Offset of them,
\* together with s'; when p fails they return p's error and s.
C11_CaptureReturnsSpan ==
    last.op \in {"GetString", "GetBytes"}
        => IF WrappedResult.err = ErrNil
           THEN /\ last.err = ErrNil
                /\ last.st = WrappedResult.st
                /\ last.val = SubSeq(input, AbsIndex(last.s) + 1, AbsIndex(last.st))
                /\ Len(last.val) = last.st.offset - last.s.offset
           ELSE last.err = WrappedResult.err /\ last.st = last.s

\* The part of C11 the code keeps: the State and the error of the result.
CaptureReturnsParserState ==
    last.op \in {"GetString", "GetBytes"}
        => IF WrappedResult.err = ErrNil
           THEN last.err = ErrNil /\ last.st = WrappedResult.st
           ELSE last.err = WrappedResult.err /\ last.st = last.s

\* C12: for an end State reached from start by successful Byte()/Rune()
\* calls, keepBytes(start, end) is the bytes consumed between them, in order,
\* across any number of nodes, and its length is end.Position().Offset -
\* start.Position().Offset.
C12_KeepBytesReturnsSpan ==
    last.op = "keepBytes"
        => /\ last.val = SubSeq(input, AbsIndex(last.s) + 1, AbsIndex(last.st))
           /\ Len(last.val) = Position(last.st).Offset - Position(last.s).Offset

\* C12 for the States of a traversal by Byte().
KeepBytesOfByteTraversal == trav.mode = "Byte" => C12_KeepBytesReturnsSpan

\* C13: when p succeeds from s with State s', GetPositions(p) returns the
\* pair (s.Position(), s'.Position()) together with s'; when p fails it
\* returns p's error and s.
C13_PositionsOfSpan ==
    last.op = "GetPositions"
        => IF WrappedResult.err = ErrNil
           THEN /\ last.err = ErrNil
                /\ last.st = WrappedResult.st
                /\ last.val = <<Position(last.s), Position(WrappedResult.st)>>
           ELSE last.err = WrappedResult.err /\ last.st = last.s

\* The part of C13 the code keeps: the start Position, the State and the
\* error.
PositionsStartAndState ==
    last.op = "GetPositions"
        => IF WrappedResult.err = ErrNil
           THEN /\ last.err = ErrNil
                /\ last.st = WrappedResult.st
                /\ last.val[1] = Position(last.s)
           ELSE last.err = WrappedResult.err /\ last.st = last.s

\* C14: ConditionRune(cond) from s reads one scalar value r; if cond(r)
\* holds it returns r and the State after r; if not, ErrNoMatch and s; if the
\* read fails, the read error and s; a read from the State returned with an
\* error reads the same r again.
C14_ConditionRuneKeepsRejected ==
    last.op = "ConditionRune"
        => LET rr == Rune(World, last.s)
               i == AbsIndex(last.s)
               dr == DecodeRune(RestFrom(i))
           IN /\ IF rr.err # ErrNil
                 THEN last.err = rr.err /\ last.st = last.s
                 ELSE IF rr.val \in last.tok
                 THEN /\ last.err = ErrNil
                      /\ last.val = rr.val
                      /\ last.st = rr.st
                      /\ last.val = dr.r
                      /\ AbsIndex(last.st) = i + dr.rs
                 ELSE last.err = ErrNoMatch /\ last.st = last.s
              /\ last.err # ErrNil => SameCall(Rune(World, last.st), rr)

\* ConditionRune rejected a scalar value that follows one it accepted, read
\* from a source.
C14_Witness ==
    /\ kind = "reader"
    /\ last.op = "ConditionRune"
    /\ last.err = ErrNoMatch
    /\ last.st = last.s
    /\ AbsIndex(last.s) > 0
    /\ Rune(World, last.s).err = ErrNil

\* What a successful call does to the Position: Offset grows by the bytes
\* consumed; a line feed starts the next line at Column 1, anything else moves
\* one Column on.
PositionAdvanced ==
    LET p == Position(last.s)
        q == Position(last.st)
    IN /\ q.Offset = p.Offset + (AbsIndex(last.st) - AbsIndex(last.s))
       /\ IF last.val = 10
          THEN q.Line = p.Line + 1 /\ q.Column = 1
          ELSE q.Line = p.Line /\ q.Column = p.Column + 1

\* C15: the initial State has Position (0, 1, 1); along successful Byte() and
\* Rune() calls a line feed increases Line by 1 and sets Column to 1, any
\* other byte or scalar value increases Column by 1 and leaves Line, Offset
\* grows by the bytes consumed, and the move to the next node changes none.
C15_PositionTracksConsumption ==
    /\ Position(InitState) = [Offset |-> 0, Line |-> 1, Column |-> 1]
    /\ (last.op \in {"Byte", "Rune"} /\ last.err = ErrNil) => PositionAdvanced

\* C15 for every call but a Rune() whose encoding straddles two nodes.
PositionTracksUnlessStraddled ==
    (last.op \in {"Byte", "Rune"} /\ last.err = ErrNil /\ ~Straddled)
        => PositionAdvanced

\* The chain a reader over the same input starts with when the source
\* delivers the same data in the same pieces and never returns (0, nil).
WorldWithoutEmptyReads ==
    newDataReaderSize([nodes |-> <<>>, pulls |-> 0,
                       src |-> [pos |-> 0, cuts |-> src.cuts, zeros |-> {},
                                fails |-> src.fails,
                                eofWithData |-> src.eofWithData]],
                      nodes[1].cap)

\* C16: for a source that returns no bytes without end-of-input a finite
\* number of times, a traversal by Byte() or by Rune() ends and yields the
\* values and the error it yields for a source that delivers the same data
\* without the empty reads.
C16_EmptyReadsAreSkipped ==
    (kind = "reader" /\ trav.mode \in {"Byte", "Rune"} /\ trav.err # ErrNil)
        => [out |-> trav.out, err |-> trav.err]
              = Traverse(trav.mode, WorldWithoutEmptyReads, InitState, <<>>)

\* C16 for a traversal by Byte().
EmptyReadsAreSkippedByByte == trav.mode = "Byte" => C16_EmptyReadsAreSkipped

\* C17: Byte() and Rune() on the zero State panic; they return no value, no
\* io.EOF and no other error.
C17_ZeroStatePanics ==
    (last.op \in {"Byte", "Rune"} /\ last.s = ZeroState)
        => last.err = ErrPanic /\ last.val = 0

\* Rune() was called on the zero State, by a caller that also holds a State
\* that was constructed.
C17_Witness ==
    /\ last.op = "Rune"
    /\ last.s = ZeroState
    /\ last.err = ErrPanic
    /\ cur = InitState

\* C18: for an empty input built from a string, from a byte slice or from a
\* source, the first Byte() and the first Rune() call on the initial State
\* return io.EOF and no value.
C18_EmptyInputIsEOF ==
    (input = <<>> /\ last.op \in {"Byte", "Rune"} /\ last.s = InitState)
        => /\ last.err = ErrEOF
           /\ last.val = 0
           /\ trav.out = <<>>

\* The first call on the State of a source that was exhausted on its first
\* pull returned io.EOF without a second pull.
C18_Witness ==
    /\ kind = "reader"
    /\ input = <<>>
    /\ ~nodes[1].r
    /\ pulls = 1
    /\ last.op \in {"Byte", "Rune"}
    /\ last.s = InitState
    /\ last.err = ErrEOF

\* A pull from the source has reported io.EOF: the node it made holds no
\* reader.
SourceEnded == kind = "reader" /\ \E i \in 1..Len(nodes) : ~nodes[i].r

\* The node without a reader is the last of the chain and has no next, the
\* source has delivered the whole input, and a source that reports io.EOF
\* with its last bytes leaves no reader in the node that holds them.
TerminalNode ==
    kind = "reader"
        => /\ \A i \in 1..Len(nodes) :
                 ~nodes[i].r => (i = Len(nodes) /\ nodes[i].next = 0
                                    /\ src.pos = Len(input))
           /\ (src.eofWithData /\ src.pos = Len(input) /\ input # <<>>)
                 => ~nodes[Len(nodes)].r

\* Byte() and Rune() on every State at the end of a node that has no reader
\* and no next return io.EOF and that State, and pull nothing.
EndIsEOF ==
    \A t \in Places :
        ( /\ ~nodes[t.data].r
          /\ nodes[t.data].next = 0
          /\ t.datap = Len(nodes[t.data].buf) )
            => /\ Byte(World, t) = Result(0, t, ErrEOF, World)
               /\ Rune(World, t) = Result(0, t, ErrEOF, World)

\* No step pulls from a source that has reported io.EOF.
NoPullAfterEnd == SourceEnded => (pulls' = pulls /\ nodes' = nodes /\ src' = src)

\* C20: once a pull has reported end-of-input the node it made holds no
\* source and is terminal: no later Byte() or Rune() call on any State pulls
\* again, and every call on a State at the end of the terminal node returns
\* io.EOF, each time it is made.
C20_TerminalNodeStaysTerminal ==
    [](TerminalNode /\ EndIsEOF) /\ [][NoPullAfterEnd]_vars

\* A call at the end of the terminal node of a chain of three nodes or more,
\* which holds the last bytes of the input, returned io.EOF.
C20_Witness ==
    /\ kind = "reader"
    /\ Len(nodes) >= 3
    /\ last.op \in {"Byte", "Rune"}
    /\ last.err = ErrEOF
    /\ ~nodes[last.st.data].r
    /\ nodes[last.st.data].buf # <<>>
    /\ last.st.datap = Len(nodes[last.st.data].buf)
    /\ last.st.data = Len(nodes)

\* Both threads have returned from their calls.
BothDone == \A t \in Threads : thr[t].pc = "done"

\* C19: when two threads call Byte() or Rune() at the same time on States at
\* the end of the same node whose next is unset, in every interleaving one
\* pull is made for that link, both continue in the same next node, and a
\* later traversal reproduces the input: no chunk is lost, duplicated or
\* reordered.
C19_ConcurrentCallersConverge ==
    BothDone
        => /\ Cardinality({t \in Threads : thr[t].new # 0}) = 1
           /\ thr[1].nx = thr[2].nx
           /\ Traverse("Byte", World, InitState, <<>>)
                 = [out |-> input, err |-> ErrEOF]

\* What holds when the calls of the two threads do not overlap: the second
\* thread tests next after the first has stored it.
CallersConvergeWhenNotOverlapped ==
    (BothDone /\ Cardinality({t \in Threads : thr[t].new # 0}) = 1)
        => /\ thr[1].nx = thr[2].nx
           /\ Traverse("Byte", World, InitState, <<>>)
                 = [out |-> input, err |-> ErrEOF]

\* C21: Sequence2(t, u, mapper) from s runs t from s and u from the State t
\* returned; when both succeed and mapper does, it returns mapper's result
\* and the State after both; when t, u or mapper fails it returns the error
\* and s.
C21_Sequence2RunsInSequence ==
    last.op = "Sequence2"
        => LET rt == ExactString(last.tok, World, last.s)
               ru == ExactBytes(last.tok2[1], World, rt.st)
               mapper == last.tok2[2]
           IN IF rt.err # ErrNil THEN last.err = rt.err /\ last.st = last.s
              ELSE IF ru.err # ErrNil THEN last.err = ru.err /\ last.st = last.s
              ELSE IF mapper.err # ErrNil
              THEN last.err = mapper.err /\ last.st = last.s
              ELSE last.err = ErrNil /\ last.st = ru.st /\ last.val = mapper.val

\* The part of C21 the code keeps: a failure returns the entry State, and a
\* failure of t returns t's error.
Sequence2FailsAtEntry ==
    last.op = "Sequence2"
        => LET rt == ExactString(last.tok, World, last.s)
           IN /\ last.err # ErrNil => last.st = last.s
              /\ rt.err # ErrNil => last.err = rt.err

\* The call about to be made needs data whose pull failed: the State is at
\* the end of a node whose Read returned an error other than io.EOF, or the
\* call makes such a pull.
MeetsFailedPull ==
    \/ cur.datap = Len(nodes[cur.data].buf) /\ nodes[cur.data].err # ErrNil
    \/ \E i \in (Len(nodes) + 1)..Len(nodes') : nodes'[i].err # ErrNil

\* C22: when a pull from the source returns an error other than
\* end-of-input, the Byte() or Rune() call that needed that data returns that
\* error; the error is not dropped, not turned into io.EOF and not followed
\* by further pulls that hide it.
C22_ReadErrorIsReturned ==
    [][MeetsFailedPull => /\ last'.err = ErrRead
                          /\ nodes'[Len(nodes')].err # ErrNil]_vars

\* What the code does with such a Read: the error is kept in the node and the
\* node keeps its reader; no call returns it.
ReadErrorIsOnlyStored ==
    /\ \A i \in 1..Len(nodes) :
          nodes[i].err # ErrNil => nodes[i].r /\ nodes[i].buf = <<>>
    /\ last.err # ErrRead

\* The sizes max(size, minDataSize) of the buffers NewStateReaderSize offers.
BufferSizes == { Max(size, minDataSize) : size \in Sizes }

\* C23: for NewStateReaderSize(r, size) every pull made on r, for the first
\* node and for every node Byte()/Rune() adds, offers a buffer of
\* max(size, 8) bytes, also after a pull that returned fewer bytes than the
\* buffer holds.
C23_EveryPullOffersTheSameBuffer ==
    kind = "reader"
        => /\ nodes[1].cap \in BufferSizes
           /\ pulls = Len(nodes)
           /\ \A i \in 1..Len(nodes) :
                 /\ nodes[i].cap = nodes[1].cap
                 /\ Len(nodes[i].buf) <= nodes[i].cap

\* Witness for C23: with a buffer above the floor, a pull returned fewer
\* bytes than the buffer holds without ending the input, and the pull after
\* it delivered bytes into a further node.
C23_Witness ==
    /\ kind = "reader"
    /\ nodes[1].cap > minDataSize
    /\ \E i \in 1..(Len(nodes) - 1) :
          /\ nodes[i].r
          /\ Len(nodes[i].buf) < nodes[i].cap
          /\ nodes[i + 1].buf # <<>>
          /\ nodes[i + 1].cap = nodes[1].cap

====
